---------------------------- MODULE Spec2Model ----------------------------
(***************************************************************************)
(* A model of detect_secrets/audit/compare.py and                         *)
(* detect_secrets/util/inject.py.                                          *)
(*                                                                         *)
(* Spec        the two-pointer merge of _compare_baselines, one action per *)
(*             way an iteration of its main loop can end.                  *)
(* SpecInject  call_function_with_arguments applied again and again to one *)
(*             callable, with the attributes it leaves on the function.    *)
(* SpecSession compare_baselines: the two paths, the materialized events   *)
(*             and the review loop of _display_difference_to_user, one     *)
(*             action per step between two calls of its collaborators.     *)
(*                                                                         *)
(* Strings that the code only compares (filenames, secret hashes) are      *)
(* modelled by their rank in lexicographic order: 1 < 2 < ...              *)
(* A line number that is absent (None) or 0 is modelled by 0: the code     *)
(* tests it with `not secret.line_number`, which is true of both.          *)
(***************************************************************************)
EXTENDS Integers, Sequences, FiniteSets

VARIABLES
    left_secrets,   \* compare.py:86  the records of the old baseline, in order
    right_secrets,  \* compare.py:87  the records of the new baseline, in order
    left_index,     \* compare.py:89
    right_index,    \* compare.py:90
    left_secret,    \* compare.py:98  local, keeps its value across iterations
    right_secret,   \* compare.py:105 local, keeps its value across iterations
    events,         \* the tuples yielded so far (compare.py:155, 159)
    pc,             \* "loop" | "done" (generator exhausted) | "raised"
    \* inject.py
    func,                   \* the callable handed to call_function_with_arguments
    injectable_variables,   \* the attribute of that name on the underlying function
    path,                   \* the attribute of that name on the underlying function
    kwargs,                 \* the pool of the latest call
    call_outcome,           \* how the latest call ended
    body_executed,          \* whether the latest call ran the callable's body
    call_received,          \* the arguments the callable's body was run with
    call_returned,          \* what the latest call returned to its caller
    was_self_aware,         \* hasattr(func, 'injectable_variables') when that call began
    \* compare.py, compare_baselines and _display_difference_to_user
    old_baseline_filename,  \* compare.py:42
    new_baseline_filename,  \* compare.py:42
    loaded,                 \* whether the baselines were loaded (compare.py:47-48)
    collection,             \* iterator.collection, the materialized events (compare.py:175)
    iterator_index,         \* iterator.index
    step_back_once,         \* set by iterator.step_back_on_next_iteration()
    sess_pc,                \* "start" | "next" | "event" | "deciding" | "done"
    decision_call,          \* the arguments of the latest io.get_user_decision
    decision,               \* the local `decision`: "QUIT" | "BACK" | "OTHER"
    review_path,            \* "normal" | "not_found": the branch that made that call
    screen,                 \* the context last printed
    messages                \* what io.print_error and io.print_message printed

mergeVars == <<left_secrets, right_secrets, left_index, right_index,
               left_secret, right_secret, events, pc>>

injectVars == <<func, injectable_variables, path, kwargs,
                call_outcome, body_executed, call_received, call_returned,
                was_self_aware>>

sessionVars == <<old_baseline_filename, new_baseline_filename, loaded, collection,
                 iterator_index, step_back_once, sess_pc, decision_call, decision,
                 review_path, screen, messages>>

vars == <<mergeVars, injectVars, sessionVars>>

---------------------------------------------------------------------------
\* Bounds of the model.

\* Longest baseline on one side.
MaxLen == 3

\* Most records in the two baselines together.
MaxTotal == 4

\* Most parameters a callable declares.
MaxParams == 2

\* Most records in the two baselines of a review session together.
SessionMaxTotal == 3

Filenames == {1, 2}
\* 0 stands for a missing line number.
LineNumbers == {0, 1, 2}
Hashes == {1, 2}

---------------------------------------------------------------------------
\* Data model.

PotentialSecret == [filename : Filenames, line_number : LineNumbers, secret_hash : Hashes]

\* Python's None, where a secret is expected.
None == [filename |-> 0, line_number |-> 0, secret_hash |-> 0]

\* s1 sorts at or before s2 under (filename, line_number, secret_hash).
KeyLeq(s1, s2) ==
    \/ s1.filename < s2.filename
    \/ /\ s1.filename = s2.filename
       /\ \/ s1.line_number < s2.line_number
          \/ /\ s1.line_number = s2.line_number
             /\ s1.secret_hash <= s2.secret_hash

SameKey(s1, s2) ==
    /\ s1.filename = s2.filename
    /\ s1.line_number = s2.line_number
    /\ s1.secret_hash = s2.secret_hash

\* The baselines of n records that are sorted, as iterating a SecretsCollection gives them.
SortedBaselines(n) ==
    {b \in [1..n -> PotentialSecret] : \A i \in 1..(n - 1) : KeyLeq(b[i], b[i + 1])}

Min(a, b) == IF a <= b THEN a ELSE b

---------------------------------------------------------------------------
\* _compare_baselines: one iteration of the main loop.

\* Mutant of LoopCondition: `and` in place of `or`, so the loop ends as soon as
\* one side is exhausted.
LoopConditionAnd(ls, rs, li, ri) == li < Len(ls) /\ ri < Len(rs)

\* The loop condition.
LoopCondition(ls, rs, li, ri) == li < Len(ls) \/ ri < Len(rs)

\* Mutant of Outcome: the hashes compared with <= in place of <, so that equal
\* records raise LeftSecret.
OutcomeHashLeq(ls, rs, li, ri) ==
    IF li < Len(ls) /\ ls[li + 1].line_number = 0 THEN "NoLineNumberError"
    ELSE IF ri < Len(rs) /\ rs[ri + 1].line_number = 0 THEN "NoLineNumberError"
    ELSE IF ri >= Len(rs) THEN "LeftSecret"
    ELSE IF li >= Len(ls) THEN "RightSecret"
    ELSE LET l == ls[li + 1]
             r == rs[ri + 1]
         IN  IF l.filename < r.filename THEN "LeftSecret"
             ELSE IF l.filename > r.filename THEN "RightSecret"
             ELSE IF l.line_number < r.line_number THEN "LeftSecret"
             ELSE IF l.line_number > r.line_number THEN "RightSecret"
             ELSE IF l.secret_hash <= r.secret_hash THEN "LeftSecret"
             ELSE "RightSecret"

\* Mutant of Outcome: the line numbers compared before the filenames.
OutcomeLineFirst(ls, rs, li, ri) ==
    IF li < Len(ls) /\ ls[li + 1].line_number = 0 THEN "NoLineNumberError"
    ELSE IF ri < Len(rs) /\ rs[ri + 1].line_number = 0 THEN "NoLineNumberError"
    ELSE IF ri >= Len(rs) THEN "LeftSecret"
    ELSE IF li >= Len(ls) THEN "RightSecret"
    ELSE LET l == ls[li + 1]
             r == rs[ri + 1]
         IN  IF l.line_number < r.line_number THEN "LeftSecret"
             ELSE IF l.line_number > r.line_number THEN "RightSecret"
             ELSE IF l.filename < r.filename THEN "LeftSecret"
             ELSE IF l.filename > r.filename THEN "RightSecret"
             ELSE IF l.secret_hash < r.secret_hash THEN "LeftSecret"
             ELSE IF l.secret_hash > r.secret_hash THEN "RightSecret"
             ELSE "Match"

\* How the try block of one iteration ends, up to the comparison of the hashes:
\* by NoLineNumberError, by LeftSecret, by RightSecret, or by falling through to
\* the matched group ("Match").
Outcome(ls, rs, li, ri) ==
    IF li < Len(ls) /\ ls[li + 1].line_number = 0 THEN "NoLineNumberError"
    ELSE IF ri < Len(rs) /\ rs[ri + 1].line_number = 0 THEN "NoLineNumberError"
    ELSE IF ri >= Len(rs) THEN "LeftSecret"
    ELSE IF li >= Len(ls) THEN "RightSecret"
    ELSE LET l == ls[li + 1]
             r == rs[ri + 1]
         IN  IF l.filename < r.filename THEN "LeftSecret"
             ELSE IF l.filename > r.filename THEN "RightSecret"
             ELSE IF l.line_number < r.line_number THEN "LeftSecret"
             ELSE IF l.line_number > r.line_number THEN "RightSecret"
             ELSE IF l.secret_hash < r.secret_hash THEN "LeftSecret"
             ELSE IF l.secret_hash > r.secret_hash THEN "RightSecret"
             ELSE "Match"

\* The value of the local left_secret after the first inner try: the record under
\* the cursor, or on IndexError the value it had before.
FetchLeft(ls, li, stale) == IF li < Len(ls) THEN ls[li + 1] ELSE stale

\* The same for right_secret, which is only reached when the left did not raise
\* NoLineNumberError.
FetchRight(ls, rs, li, ri, stale) ==
    IF li < Len(ls) /\ ls[li + 1].line_number = 0 THEN stale
    ELSE IF ri < Len(rs) THEN rs[ri + 1] ELSE stale

\* while old_hash == secrets[index].secret_hash: index += 1, ended by IndexError.
RECURSIVE SkipGroup(_, _, _)
SkipGroup(secrets, index, old_hash) ==
    IF index < Len(secrets) /\ secrets[index + 1].secret_hash = old_hash
    THEN SkipGroup(secrets, index + 1, old_hash)
    ELSE index

\* Mutant of MatchedIndexes: neither cursor moves after a match.
MatchedIndexesNoSkip(ls, rs, li, ri) == <<li, ri>>

\* Mutant of MatchedIndexes: the left cursor skips its group, the right one
\* moves by one record only.
MatchedIndexesRightByOne(ls, rs, li, ri) ==
    <<SkipGroup(ls, li, ls[li + 1].secret_hash), ri + 1>>

\* The two cursors after a matched group: each moves past the records that
\* follow on its side with the secret_hash of the record it stands on.
MatchedIndexes(ls, rs, li, ri) ==
    <<SkipGroup(ls, li, ls[li + 1].secret_hash), SkipGroup(rs, ri, rs[ri + 1].secret_hash)>>

\* The tuple yielded by `except LeftSecret`, from the two locals.
LeftEvent(l, r) == [filename |-> l.filename, left |-> l, right |-> None]

\* Mutant of RightEvent: the filename taken from the left local.
RightEventLeftFilename(l, r) == [filename |-> l.filename, left |-> None, right |-> r]

\* The tuple yielded by `except RightSecret`, from the two locals.
RightEvent(l, r) == [filename |-> r.filename, left |-> None, right |-> r]

---------------------------------------------------------------------------
\* The part of the state a specification does not use stays as it is here.

\* An attribute that is not set; the attribute injectable_variables when set.
NoPath == "no attribute"
NoAttr == [present |-> FALSE, names |-> {}]
Attr(names) == [present |-> TRUE, names |-> names]

\* No callable, no attribute, no call.

InjectIdle ==
    /\ func = [kind |-> "none", params |-> <<>>, required |-> {}]
    /\ injectable_variables = NoAttr
    /\ path = NoPath
    /\ kwargs = <<>>
    /\ call_outcome = "none"
    /\ body_executed = FALSE
    /\ call_received = <<>>
    /\ call_returned = <<>>
    /\ was_self_aware = FALSE

NoDecisionCall == [can_step_back |-> FALSE, prompt_secret_decision |-> FALSE]
NoScreen == [kind |-> "none", current_index |-> 0, num_total_secrets |-> 0,
             secret |-> None, status |-> "none"]

SessionIdle ==
    /\ old_baseline_filename = "none"
    /\ new_baseline_filename = "none"
    /\ loaded = FALSE
    /\ collection = <<>>
    /\ iterator_index = -1
    /\ step_back_once = FALSE
    /\ sess_pc = "idle"
    /\ decision_call = NoDecisionCall
    /\ decision = "none"
    /\ review_path = "none"
    /\ screen = NoScreen
    /\ messages = <<>>

MergeIdle ==
    /\ left_secrets = <<>>
    /\ right_secrets = <<>>
    /\ left_index = 0
    /\ right_index = 0
    /\ left_secret = None
    /\ right_secret = None
    /\ events = <<>>
    /\ pc = "idle"

---------------------------------------------------------------------------
\* The generator as a state machine.

\* The inputs: every pair of sorted baselines of at most MaxLen records each and
\* MaxTotal together, and every sorted baseline of at most MaxLen records
\* compared with itself.
Init ==
    /\ \/ \E n \in 0..MaxLen :
            \E m \in 0..Min(MaxLen, MaxTotal - n) :
               /\ left_secrets \in SortedBaselines(n)
               /\ right_secrets \in SortedBaselines(m)
       \/ \E n \in 0..MaxLen :
            /\ left_secrets \in SortedBaselines(n)
            /\ right_secrets = left_secrets
    /\ left_index = 0
    /\ right_index = 0
    /\ left_secret = None
    /\ right_secret = None
    /\ events = <<>>
    /\ pc = "loop"
    /\ InjectIdle
    /\ SessionIdle

\* What every iteration does first: the two fetches.
Fetch ==
    /\ left_secret' = FetchLeft(left_secrets, left_index, left_secret)
    /\ right_secret' = FetchRight(left_secrets, right_secrets, left_index, right_index, right_secret)

\* An iteration that ends in `except LeftSecret`.
TakeLeft ==
    /\ pc = "loop"
    /\ LoopCondition(left_secrets, right_secrets, left_index, right_index)
    /\ Outcome(left_secrets, right_secrets, left_index, right_index) = "LeftSecret"
    /\ Fetch
    /\ events' = Append(events, LeftEvent(left_secret', right_secret'))
    /\ left_index' = left_index + 1
    /\ UNCHANGED <<left_secrets, right_secrets, right_index, pc, injectVars, sessionVars>>

\* An iteration that ends in `except RightSecret`.
TakeRight ==
    /\ pc = "loop"
    /\ LoopCondition(left_secrets, right_secrets, left_index, right_index)
    /\ Outcome(left_secrets, right_secrets, left_index, right_index) = "RightSecret"
    /\ Fetch
    /\ events' = Append(events, RightEvent(left_secret', right_secret'))
    /\ right_index' = right_index + 1
    /\ UNCHANGED <<left_secrets, right_secrets, left_index, pc, injectVars, sessionVars>>

\* An iteration in which the two records are equal in all three fields: both
\* cursors move past the records that follow with the same secret_hash.
Match ==
    /\ pc = "loop"
    /\ LoopCondition(left_secrets, right_secrets, left_index, right_index)
    /\ Outcome(left_secrets, right_secrets, left_index, right_index) = "Match"
    /\ Fetch
    /\ left_index' = MatchedIndexes(left_secrets, right_secrets, left_index, right_index)[1]
    /\ right_index' = MatchedIndexes(left_secrets, right_secrets, left_index, right_index)[2]
    /\ UNCHANGED <<left_secrets, right_secrets, events, pc, injectVars, sessionVars>>

\* An iteration that raises NoLineNumberError, which no handler of the generator catches.
RaiseNoLineNumber ==
    /\ pc = "loop"
    /\ LoopCondition(left_secrets, right_secrets, left_index, right_index)
    /\ Outcome(left_secrets, right_secrets, left_index, right_index) = "NoLineNumberError"
    /\ Fetch
    /\ pc' = "raised"
    /\ UNCHANGED <<left_secrets, right_secrets, left_index, right_index, events, injectVars, sessionVars>>

\* The loop condition is false: the generator is exhausted.
Exhausted ==
    /\ pc = "loop"
    /\ ~LoopCondition(left_secrets, right_secrets, left_index, right_index)
    /\ pc' = "done"
    /\ UNCHANGED <<left_secrets, right_secrets, left_index, right_index,
                   left_secret, right_secret, events, injectVars, sessionVars>>

Next ==
    \/ TakeLeft
    \/ TakeRight
    \/ Match
    \/ RaiseNoLineNumber
    \/ Exhausted

Spec == Init /\ [][Next]_vars

\* list(_compare_baselines(...)) asks the generator for its next event until it
\* is exhausted or raises: an iteration that can run does run.
SpecFair == Spec /\ WF_vars(Next)

---------------------------------------------------------------------------
\* _compare_baselines run to its end on (ls, rs), as list(...) consumes it:
\* the events it yields and whether it raised NoLineNumberError.

RECURSIVE RunFrom(_, _, _, _, _, _, _)
RunFrom(ls, rs, li, ri, l, r, out) ==
    IF ~LoopCondition(ls, rs, li, ri) THEN [events |-> out, raised |-> FALSE]
    ELSE LET o  == Outcome(ls, rs, li, ri)
             l2 == FetchLeft(ls, li, l)
             r2 == FetchRight(ls, rs, li, ri, r)
         IN  CASE o = "NoLineNumberError" -> [events |-> out, raised |-> TRUE]
               [] o = "LeftSecret" ->
                    RunFrom(ls, rs, li + 1, ri, l2, r2, Append(out, LeftEvent(l2, r2)))
               [] o = "RightSecret" ->
                    RunFrom(ls, rs, li, ri + 1, l2, r2, Append(out, RightEvent(l2, r2)))
               [] OTHER ->
                    RunFrom(ls, rs, MatchedIndexes(ls, rs, li, ri)[1],
                            MatchedIndexes(ls, rs, li, ri)[2], l2, r2, out)

CompareBaselines(old_baseline, new_baseline) ==
    RunFrom(old_baseline, new_baseline, 0, 0, None, None, <<>>)

---------------------------------------------------------------------------
\* Vocabulary of the properties.

\* Every record of the baseline has a line number.
HasLineNumbers(b) == \A i \in 1..Len(b) : b[i].line_number # 0

\* Both inputs are valid: sorted (by Init) and with line numbers throughout.
ValidInputs == HasLineNumbers(left_secrets) /\ HasLineNumbers(right_secrets)

\* The number of records of b with the key of s.
CountKey(b, s) == Cardinality({i \in 1..Len(b) : SameKey(b[i], s)})

\* The number of events carrying, on the left (on the right), a record with the key of s.
CountLeftEvents(es, s) ==
    Cardinality({i \in 1..Len(es) : es[i].left # None /\ SameKey(es[i].left, s)})
CountRightEvents(es, s) ==
    Cardinality({i \in 1..Len(es) : es[i].right # None /\ SameKey(es[i].right, s)})

\* The record an event carries.
Present(e) == IF e.left # None THEN e.left ELSE e.right

\* An event with its two sides exchanged.
Mirror(e) == [filename |-> e.filename, left |-> e.right, right |-> e.left]
MirrorAll(es) == [i \in 1..Len(es) |-> Mirror(es[i])]

Records(b) == {b[i] : i \in 1..Len(b)}

---------------------------------------------------------------------------
\* Properties of _compare_baselines.

\* C1 (as claimed): total coverage. When the merge of two valid baselines is
\* complete, the records of a key that occurs in only one baseline have one
\* event each, on that baseline's side, and a key that occurs in both baselines
\* has no event.
C1_TotalCoverage ==
    (pc = "done" /\ ValidInputs) =>
        \A s \in Records(left_secrets) \cup Records(right_secrets) :
            LET nl == CountKey(left_secrets, s)
                nr == CountKey(right_secrets, s)
            IN  /\ (nl > 0 /\ nr = 0) =>
                       /\ CountLeftEvents(events, s) = nl
                       /\ CountRightEvents(events, s) = 0
                /\ (nr > 0 /\ nl = 0) =>
                       /\ CountRightEvents(events, s) = nr
                       /\ CountLeftEvents(events, s) = 0
                /\ (nl > 0 /\ nr > 0) =>
                       /\ CountLeftEvents(events, s) = 0
                       /\ CountRightEvents(events, s) = 0

\* C2 (as claimed): a record without a line number is a hard error. If some
\* record of either baseline has no line number, the generator never ends
\* normally.
C2_MissingLineNumberRaises ==
    ~ValidInputs => pc # "done"

\* C3: identical input. A valid baseline compared with itself yields no event
\* and does not raise.
C3_IdenticalInputNoEvent ==
    (left_secrets = right_secrets /\ ValidInputs) =>
        /\ events = <<>>
        /\ pc # "raised"

\* C3 witness: the comparison of a valid baseline of three records, two of them
\* with the same key, with itself is complete.
C3_Witness ==
    /\ pc = "done"
    /\ ValidInputs
    /\ left_secrets = right_secrets
    /\ Len(left_secrets) = 3
    /\ SameKey(left_secrets[1], left_secrets[2])
    /\ ~SameKey(left_secrets[2], left_secrets[3])

\* C4: symmetry. The events of the complete merge of two valid baselines are, in
\* the same order, the events of the merge of the exchanged baselines with the
\* two sides of each event exchanged; the exchanged merge does not raise.
C4_Symmetry ==
    (pc = "done" /\ ValidInputs) =>
        LET m == CompareBaselines(right_secrets, left_secrets)
        IN  /\ ~m.raised
            /\ events = MirrorAll(m.events)

\* C4 witness: a complete merge with a matched pair, a removal and an addition.
C4_Witness ==
    /\ pc = "done"
    /\ ValidInputs
    /\ left_index + right_index > Len(events)
    /\ \E i \in 1..Len(events) : events[i].left # None
    /\ \E i \in 1..Len(events) : events[i].right # None

\* C5: ordering of the output. The records carried by the events yielded from
\* valid baselines are non-decreasing under (filename, line_number, secret_hash).
C5_OutputOrdered ==
    ValidInputs =>
        \A i \in 1..(Len(events) - 1) :
            KeyLeq(Present(events[i]), Present(events[i + 1]))

\* C5 witness: old holds (a.py, 1, h1), new holds (b.py, 1, h1); the removal in
\* a.py was yielded first, the addition in b.py second.
C5_Witness ==
    /\ pc = "done"
    /\ left_secrets = <<[filename |-> 1, line_number |-> 1, secret_hash |-> 1]>>
    /\ right_secrets = <<[filename |-> 2, line_number |-> 1, secret_hash |-> 1]>>
    /\ Len(events) = 2
    /\ events[1].left = left_secrets[1]
    /\ events[2].right = right_secrets[1]

\* C6: every event has exactly one side present, a record of the old baseline
\* on the left or a record of the new baseline on the right, and carries the
\* filename of that record.
C6_ExactlyOneSide ==
    \A i \in 1..Len(events) :
        \/ /\ events[i].left # None
           /\ events[i].right = None
           /\ events[i].left \in Records(left_secrets)
           /\ events[i].filename = events[i].left.filename
        \/ /\ events[i].left = None
           /\ events[i].right # None
           /\ events[i].right \in Records(right_secrets)
           /\ events[i].filename = events[i].right.filename

\* C6 witness: the old baseline has one record, yielded as a removal; the new
\* baseline's records of another file were yielded after the old one was exhausted.
C6_Witness ==
    /\ pc = "done"
    /\ Len(left_secrets) = 1
    /\ Len(events) >= 2
    /\ events[1].left = left_secrets[1]
    /\ events[Len(events)].right # None
    /\ events[Len(events)].filename # left_secrets[1].filename

\* C7: empty baseline. With the old baseline empty and the new one valid, the
\* complete merge yields one addition per record of the new baseline, in its
\* order; with the new baseline empty, one removal per record of the old one.
C7_EmptyBaseline ==
    (pc = "done" /\ ValidInputs) =>
        /\ left_secrets = <<>> =>
               events = [i \in 1..Len(right_secrets) |->
                            [filename |-> right_secrets[i].filename,
                             left |-> None, right |-> right_secrets[i]]]
        /\ right_secrets = <<>> =>
               events = [i \in 1..Len(left_secrets) |->
                            [filename |-> left_secrets[i].filename,
                             left |-> left_secrets[i], right |-> None]]

\* C7 witness: the merge of an empty old baseline with a new one of three
\* records is complete.
C7_Witness ==
    /\ pc = "done"
    /\ ValidInputs
    /\ left_secrets = <<>>
    /\ Len(right_secrets) = 3
    /\ Len(events) = 3

---------------------------------------------------------------------------
\* inject.py. A callable is modelled by what the mechanism reads of it:
\*   kind      "function" (a plain function) or "method" (a bound method of an
\*             instance, whose underlying function is found on the class);
\*   params    co_varnames[:co_argcount + co_kwonlyargcount] of its code, which
\*             for a method begins with the parameter that receives the instance;
\*   required  the parameters that have no default.
\* The attributes injectable_variables and path live on the underlying function;
\* a bound method shows the attributes of its function and cannot be given any.

Names == {"self", "secret", "header"}
Values == {"X", "Y"}

\* func.__self__ of a bound method.
Instance == "instance"

ParamLists(n) == {p \in [1..n -> Names] : \A i, j \in 1..n : i # j => p[i] # p[j]}

Declared(f) == {f.params[i] : i \in 1..Len(f.params)}

Callables ==
    UNION {UNION {{[kind |-> k, params |-> p, required |-> r] : r \in SUBSET {p[i] : i \in 1..n}}
                  : p \in ParamLists(n)}
           : n \in 0..MaxParams, k \in {"function", "method"}}

\* A bound method has at least the parameter that receives the instance.
WellFormed(f) == f.kind = "method" => Len(f.params) >= 1

\* The pools: the keyword arguments of a call.
Pools == UNION {[S -> Values] : S \in SUBSET Names}

Restrict(m, S) == [n \in S |-> m[n]]
With(m, name, v) == [n \in DOMAIN m \cup {name} |-> IF n = name THEN v ELSE m[n]]

\* inspect.ismethod
IsMethod(f) == f.kind = "method"

GetInjectableVariables(f) == f.params

\* make_function_self_aware(f), given the attributes on the underlying function:
\* whether the callable it returns is the bound method itself, and the
\* attributes afterwards.
MakeFunctionSelfAware(f, iv, pth) ==
    IF iv # NoAttr
    THEN [is_method |-> IsMethod(f), injectable_variables |-> iv, path |-> pth]
    ELSE IF IsMethod(f)
    THEN [is_method |-> FALSE,
          injectable_variables |-> Attr(Declared(f)),
          path |-> "klass.name"]
    ELSE [is_method |-> FALSE, injectable_variables |-> iv, path |-> "name"]

\* The callable's body, which the mechanism does not look into: it returns the
\* arguments it was run with.
Body(f, args) == args

\* Python's call function(**values). Called through a bound method the instance
\* takes the first parameter, and a keyword of that name is a TypeError; a
\* parameter without default that gets no value is a TypeError; a TypeError of
\* the call comes before the body runs.
Invoke(f, through_method, values) ==
    IF through_method /\ f.params[1] \in DOMAIN values
    THEN [outcome |-> "TypeError", body_executed |-> FALSE, received |-> <<>>, returned |-> <<>>]
    ELSE LET args == IF through_method THEN With(values, f.params[1], Instance) ELSE values
         IN  IF f.required \subseteq DOMAIN args
             THEN [outcome |-> "returned", body_executed |-> TRUE,
                   received |-> args, returned |-> Body(f, args)]
             ELSE [outcome |-> "TypeError", body_executed |-> FALSE,
                   received |-> <<>>, returned |-> <<>>]

\* Mutant of CallFunctionWithArguments: the instance is added to the keyword
\* arguments of every bound method, also when the callable that is called is
\* the bound method itself.
CallFunctionWithArgumentsAlwaysInject(f, pool, iv, pth) ==
    LET function == MakeFunctionSelfAware(f, iv, pth)
        kw == IF IsMethod(f)
              THEN With(pool, GetInjectableVariables(f)[1], Instance)
              ELSE pool
    IN  IF function.injectable_variables = NoAttr
        THEN [injectable_variables |-> function.injectable_variables,
              path |-> function.path,
              call |-> [outcome |-> "AttributeError", body_executed |-> FALSE,
                        received |-> <<>>, returned |-> <<>>]]
        ELSE [injectable_variables |-> function.injectable_variables,
              path |-> function.path,
              call |-> Invoke(f, function.is_method,
                              Restrict(kw, DOMAIN kw \cap function.injectable_variables.names))]

\* call_function_with_arguments(f, **pool), given the attributes on the
\* underlying function: the attributes afterwards and how the call ended.
CallFunctionWithArguments(f, pool, iv, pth) ==
    LET function == MakeFunctionSelfAware(f, iv, pth)
        kw == IF IsMethod(f) /\ ~function.is_method
              THEN With(pool, GetInjectableVariables(f)[1], Instance)
              ELSE pool
    IN  IF function.injectable_variables = NoAttr
        THEN [injectable_variables |-> function.injectable_variables,
              path |-> function.path,
              call |-> [outcome |-> "AttributeError", body_executed |-> FALSE,
                        received |-> <<>>, returned |-> <<>>]]
        ELSE [injectable_variables |-> function.injectable_variables,
              path |-> function.path,
              call |-> Invoke(f, function.is_method,
                              Restrict(kw, DOMAIN kw \cap function.injectable_variables.names))]

InitInject ==
    /\ MergeIdle
    /\ SessionIdle
    /\ func \in {f \in Callables : WellFormed(f)}
    /\ injectable_variables = NoAttr
    /\ path = NoPath
    /\ kwargs = <<>>
    /\ call_outcome = "none"
    /\ body_executed = FALSE
    /\ call_received = <<>>
    /\ call_returned = <<>>
    /\ was_self_aware = FALSE

\* One call of call_function_with_arguments on the callable, with any pool.
Call ==
    \E pool \in Pools :
        LET c == CallFunctionWithArguments(func, pool, injectable_variables, path)
        IN  /\ kwargs' = pool
            /\ injectable_variables' = c.injectable_variables
            /\ path' = c.path
            /\ call_outcome' = c.call.outcome
            /\ body_executed' = c.call.body_executed
            /\ call_received' = c.call.received
            /\ call_returned' = c.call.returned
            /\ was_self_aware' = (injectable_variables # NoAttr)
            /\ UNCHANGED <<func, mergeVars, sessionVars>>

NextInject == Call

SpecInject == InitInject /\ [][NextInject]_vars

---------------------------------------------------------------------------
\* Properties of call_function_with_arguments.

\* The parameters a caller has to supply: all that have no default, but for
\* the one a bound method fills with its instance.
ToSupply(f) == IF IsMethod(f) THEN f.required \ {f.params[1]} ELSE f.required

\* The arguments the callable is to run with: the pool's values of the names
\* that are declared and in the pool and, for a bound method, the instance.
ExpectedArguments(f, pool) ==
    IF IsMethod(f)
    THEN With(Restrict(pool, (DOMAIN pool \cap Declared(f)) \ {f.params[1]}),
              f.params[1], Instance)
    ELSE Restrict(pool, DOMAIN pool \cap Declared(f))

\* C8 (as claimed): injection passes exactly the matching names. A call whose
\* pool holds every parameter that has no default runs the callable with the
\* pool's values of the names both declared and in the pool, and with nothing
\* else, and returns the callable's result.
C8_InjectsMatchingNames ==
    (call_outcome # "none" /\ ToSupply(func) \subseteq DOMAIN kwargs) =>
        /\ call_outcome = "returned"
        /\ body_executed
        /\ call_received = ExpectedArguments(func, kwargs)
        /\ call_returned = Body(func, ExpectedArguments(func, kwargs))

\* C9 (as claimed): injection contract violation. A call whose pool lacks a
\* parameter that has no default ends in a TypeError without running the body,
\* and no call ends in a failure of another kind.
C9_MissingParameterTypeError ==
    call_outcome # "none" =>
        /\ ~(ToSupply(func) \subseteq DOMAIN kwargs) =>
               /\ call_outcome = "TypeError"
               /\ ~body_executed
        /\ call_outcome \in {"returned", "TypeError"}

---------------------------------------------------------------------------
\* compare_baselines and _display_difference_to_user.
\*
\* BidirectionalIterator (audit/iterator.py), io.get_user_decision (audit/io.py)
\* and the resolver get_raw_secret_from_file (audit/common.py) are collaborators
\* defined in other modules. The
\* iterator is modelled from the specification's session state machine and
\* from the way the loop uses it: a cursor that can_step_back() when it is
\* above 0, that the next iteration moves back by one after
\* step_back_on_next_iteration() and forward by one otherwise, and that ends
\* the loop when it leaves the list. The decision collector answers BACK only
\* when it was told can_step_back. The resolver either succeeds or raises
\* SecretNotFoundOnSpecifiedLineError.

\* The sorted baselines of at most SessionMaxTotal records together.
SessionBaselinePairs ==
    UNION {UNION {SortedBaselines(n) \X SortedBaselines(m) : m \in 0..(SessionMaxTotal - n)}
           : n \in 0..SessionMaxTotal}

\* iterator.can_step_back()
CanStepBack(i) == i > 0

\* The cursor after the iterator's next step.
IteratorNext(i, back) == IF back THEN i - 1 ELSE i + 1

\* Whether the cursor stands on an event of the list.
InCollection(i, c) == 0 <= i /\ i < Len(c)

\* secret = left_secret if left_secret else right_secret
SecretOf(e) == IF e.left # None THEN e.left ELSE e.right

\* Mutant of StatusOf: the test made on the left secret.
StatusOfSwapped(e) == IF e.left = None THEN "REMOVED" ELSE "ADDED"

\* 'REMOVED' if not right_secret else 'ADDED'
StatusOf(e) == IF e.right = None THEN "REMOVED" ELSE "ADDED"

\* Mutant of NormalContext: the position counted from 0.
NormalContextZeroBased(i, c) ==
    [kind |-> "context", current_index |-> i, num_total_secrets |-> Len(c),
     secret |-> SecretOf(c[i + 1]), status |-> StatusOf(c[i + 1])]

\* The SecretContext handed to io.print_context.
NormalContext(i, c) ==
    [kind |-> "context", current_index |-> i + 1, num_total_secrets |-> Len(c),
     secret |-> SecretOf(c[i + 1]), status |-> StatusOf(c[i + 1])]

\* The SecretContext handed to io.print_secret_not_found.
NotFoundContext(i, c) ==
    [kind |-> "not_found", current_index |-> i + 1, num_total_secrets |-> Len(c),
     secret |-> SecretOf(c[i + 1]), status |-> "none"]

\* Mutant of NotFoundDecisionCall: can_step_back left out of the call and
\* taken to be true.
NotFoundDecisionCallAlwaysBack(i) ==
    [can_step_back |-> TRUE, prompt_secret_decision |-> FALSE]

\* The arguments of io.get_user_decision after io.print_context.
NormalDecisionCall(i) ==
    [can_step_back |-> CanStepBack(i), prompt_secret_decision |-> FALSE]

\* The arguments of io.get_user_decision after io.print_secret_not_found.
NotFoundDecisionCall(i) ==
    [can_step_back |-> CanStepBack(i), prompt_secret_decision |-> FALSE]

InitSession ==
    /\ MergeIdle
    /\ InjectIdle
    /\ old_baseline_filename = "a.baseline"
    /\ new_baseline_filename \in {"a.baseline", "b.baseline"}
    /\ loaded = FALSE
    /\ collection = <<>>
    /\ iterator_index = -1
    /\ step_back_once = FALSE
    /\ sess_pc = "start"
    /\ decision_call = NoDecisionCall
    /\ decision = "none"
    /\ review_path = "none"
    /\ screen = NoScreen
    /\ messages = <<>>

\* Mutant of SameFile: the message is printed but the return is missing, so the
\* file is loaded and compared with itself.
SameFileNoReturn ==
    /\ sess_pc = "start"
    /\ old_baseline_filename = new_baseline_filename
    /\ messages' = Append(messages, "This is the same file!")
    /\ \E n \in 0..SessionMaxTotal : \E b \in SortedBaselines(n) :
          /\ left_secrets' = b
          /\ right_secrets' = b
          /\ collection' = CompareBaselines(b, b).events
    /\ loaded' = TRUE
    /\ sess_pc' = "next"
    /\ UNCHANGED <<old_baseline_filename, new_baseline_filename, decision,
                   iterator_index, step_back_once, decision_call, review_path, screen,
                   left_index, right_index, left_secret, right_secret, events, pc,
                   injectVars>>

\* The two paths are the same: an error message, and nothing else.
SameFile ==
    /\ sess_pc = "start"
    /\ old_baseline_filename = new_baseline_filename
    /\ messages' = Append(messages, "This is the same file!")
    /\ sess_pc' = "done"
    /\ UNCHANGED <<old_baseline_filename, new_baseline_filename, decision, loaded, collection,
                   iterator_index, step_back_once, decision_call, review_path, screen,
                   mergeVars, injectVars>>

\* Mutant of LoadAndRaise: the generator is consumed as the review goes, so the
\* events yielded before the error are reviewed.
LoadAndRaisePartial ==
    /\ sess_pc = "start"
    /\ old_baseline_filename # new_baseline_filename
    /\ \E b \in SessionBaselinePairs :
          /\ CompareBaselines(b[1], b[2]).raised
          /\ left_secrets' = b[1]
          /\ right_secrets' = b[2]
          /\ collection' = CompareBaselines(b[1], b[2]).events
    /\ loaded' = TRUE
    /\ sess_pc' = "next"
    /\ UNCHANGED <<old_baseline_filename, new_baseline_filename, decision,
                   iterator_index, step_back_once, decision_call, review_path, screen,
                   messages, left_index, right_index, left_secret, right_secret,
                   events, pc, injectVars>>

\* The baselines are loaded and list(_compare_baselines(...)) raises
\* NoLineNumberError, which compare_baselines prints.
LoadAndRaise ==
    /\ sess_pc = "start"
    /\ old_baseline_filename # new_baseline_filename
    /\ \E b \in SessionBaselinePairs :
          /\ CompareBaselines(b[1], b[2]).raised
          /\ left_secrets' = b[1]
          /\ right_secrets' = b[2]
    /\ loaded' = TRUE
    /\ messages' = Append(messages, "NoLineNumberError")
    /\ sess_pc' = "done"
    /\ UNCHANGED <<old_baseline_filename, new_baseline_filename, decision, collection,
                   iterator_index, step_back_once, decision_call, review_path, screen,
                   left_index, right_index, left_secret, right_secret, events, pc,
                   injectVars>>

\* The baselines are loaded and the events materialized; the iterator is
\* constructed over them.
LoadAndMaterialize ==
    /\ sess_pc = "start"
    /\ old_baseline_filename # new_baseline_filename
    /\ \E b \in SessionBaselinePairs :
          /\ ~CompareBaselines(b[1], b[2]).raised
          /\ left_secrets' = b[1]
          /\ right_secrets' = b[2]
          /\ collection' = CompareBaselines(b[1], b[2]).events
    /\ loaded' = TRUE
    /\ iterator_index' = -1
    /\ step_back_once' = FALSE
    /\ sess_pc' = "next"
    /\ UNCHANGED <<old_baseline_filename, new_baseline_filename, decision,
                   decision_call, review_path, screen, messages,
                   left_index, right_index, left_secret, right_secret, events, pc,
                   injectVars>>

\* The for statement asks the iterator for the next event: the cursor moves and
\* either stands on an event or the loop ends.
NextEvent ==
    /\ sess_pc = "next"
    /\ iterator_index' = IteratorNext(iterator_index, step_back_once)
    /\ step_back_once' = FALSE
    /\ sess_pc' = IF InCollection(iterator_index', collection) THEN "event" ELSE "done"
    /\ UNCHANGED <<old_baseline_filename, new_baseline_filename, decision, loaded, collection,
                   decision_call, review_path, screen, messages, mergeVars, injectVars>>

\* The secret's value is resolved: the context is printed and a decision asked for.
ReviewNormal ==
    /\ sess_pc = "event"
    /\ screen' = NormalContext(iterator_index, collection)
    /\ decision_call' = NormalDecisionCall(iterator_index)
    /\ review_path' = "normal"
    /\ sess_pc' = "deciding"
    /\ UNCHANGED <<old_baseline_filename, new_baseline_filename, decision, loaded, collection,
                   iterator_index, step_back_once, messages, mergeVars, injectVars>>

\* Mutant of ReviewNotFound: the error is not caught and ends the loop.
ReviewNotFoundEscapes ==
    /\ sess_pc = "event"
    /\ review_path' = "not_found"
    /\ sess_pc' = "done"
    /\ UNCHANGED <<old_baseline_filename, new_baseline_filename, decision, loaded,
                   collection, iterator_index, step_back_once, decision_call, screen,
                   messages, mergeVars, injectVars>>

\* The resolver raises SecretNotFoundOnSpecifiedLineError: the error context is
\* printed and a decision asked for.
ReviewNotFound ==
    /\ sess_pc = "event"
    /\ screen' = NotFoundContext(iterator_index, collection)
    /\ decision_call' = NotFoundDecisionCall(iterator_index)
    /\ review_path' = "not_found"
    /\ sess_pc' = "deciding"
    /\ UNCHANGED <<old_baseline_filename, new_baseline_filename, decision, loaded, collection,
                   iterator_index, step_back_once, messages, mergeVars, injectVars>>

\* Mutant of DecideQuit: the message is printed but the break is missing.
DecideQuitNoBreak ==
    /\ sess_pc = "deciding"
    /\ messages' = Append(messages, "Quitting...")
    /\ decision' = "QUIT"
    /\ sess_pc' = "next"
    /\ UNCHANGED <<old_baseline_filename, new_baseline_filename, loaded, collection,
                   iterator_index, step_back_once, decision_call, review_path, screen,
                   mergeVars, injectVars>>

\* The decision is QUIT.
DecideQuit ==
    /\ sess_pc = "deciding"
    /\ messages' = Append(messages, "Quitting...")
    /\ decision' = "QUIT"
    /\ sess_pc' = "done"
    /\ UNCHANGED <<old_baseline_filename, new_baseline_filename, loaded, collection,
                   iterator_index, step_back_once, decision_call, review_path, screen,
                   mergeVars, injectVars>>

\* The decision is BACK, which the collector gives only when told it can step back.
DecideBack ==
    /\ sess_pc = "deciding"
    /\ decision_call.can_step_back
    /\ step_back_once' = TRUE
    /\ decision' = "BACK"
    /\ sess_pc' = "next"
    /\ UNCHANGED <<old_baseline_filename, new_baseline_filename, loaded, collection,
                   iterator_index, decision_call, review_path, screen, messages,
                   mergeVars, injectVars>>

\* Mutant of DecideOther: `else` in place of `elif decision == BACK`, so every
\* decision but QUIT steps back.
DecideOtherStepsBack ==
    /\ sess_pc = "deciding"
    /\ decision' = "OTHER"
    /\ step_back_once' = TRUE
    /\ sess_pc' = "next"
    /\ UNCHANGED <<old_baseline_filename, new_baseline_filename, loaded, collection,
                   iterator_index, decision_call, review_path, screen,
                   messages, mergeVars, injectVars>>

\* Any other decision.
DecideOther ==
    /\ sess_pc = "deciding"
    /\ decision' = "OTHER"
    /\ sess_pc' = "next"
    /\ UNCHANGED <<old_baseline_filename, new_baseline_filename, loaded, collection,
                   iterator_index, step_back_once, decision_call, review_path, screen,
                   messages, mergeVars, injectVars>>

NextSession ==
    \/ SameFile
    \/ LoadAndRaise
    \/ LoadAndMaterialize
    \/ NextEvent
    \/ ReviewNormal
    \/ ReviewNotFound
    \/ DecideQuit
    \/ DecideBack
    \/ DecideOther

SpecSession == InitSession /\ [][NextSession]_vars

\* Once the events are materialized the loop of _display_difference_to_user
\* runs on without waiting for anything but the reviewer's decision, and every
\* decision asked for is given.
SpecSessionFair ==
    SpecSession /\ WF_vars(NextEvent \/ ReviewNormal \/ ReviewNotFound
                               \/ DecideQuit \/ DecideBack \/ DecideOther)

---------------------------------------------------------------------------
\* Properties of the review session.

\* C10: cursor bounds. Whenever a decision is being collected, on the normal
\* path or after a resolution failure, the can_step_back handed to the
\* collector is true exactly when the cursor is above 0. An event is under
\* review only with the cursor on the list, and a step back is only ever
\* pending with the cursor above 0.
C10_CursorBounds ==
    /\ sess_pc = "deciding" => decision_call.can_step_back = (iterator_index > 0)
    /\ sess_pc \in {"event", "deciding"} =>
           /\ 0 <= iterator_index
           /\ iterator_index < Len(collection)
    /\ step_back_once => iterator_index > 0

\* C10 witness: at the second of three events the resolution failed, the
\* collector was told it can step back, and the decision was BACK.
C10_Witness ==
    /\ sess_pc = "next"
    /\ step_back_once
    /\ review_path = "not_found"
    /\ iterator_index = 1
    /\ Len(collection) = 3
    /\ decision_call.can_step_back

\* C11: session transitions. The first step of the loop reviews event 0 when
\* there are events and ends the session, with nothing displayed and no
\* decision asked for, when there are none. After a decision other than QUIT
\* and BACK the loop reviews event i+1 when there is one and ends when i was
\* the last; after BACK at i > 0 it reviews event i-1 of the same list.
C11_SessionTransitions ==
    [][(sess_pc = "next" /\ sess_pc' # "next") =>
          /\ collection' = collection
          /\ decision' = decision
          /\ decision = "none" =>
                /\ iterator_index' = 0
                /\ Len(collection) > 0 => sess_pc' = "event"
                /\ Len(collection) = 0 =>
                      /\ sess_pc' = "done"
                      /\ screen' = NoScreen
                      /\ decision_call' = NoDecisionCall
          /\ decision = "OTHER" =>
                /\ iterator_index' = iterator_index + 1
                /\ iterator_index + 1 < Len(collection) => sess_pc' = "event"
                /\ iterator_index = Len(collection) - 1 => sess_pc' = "done"
          /\ (decision = "BACK" /\ iterator_index > 0) =>
                /\ iterator_index' = iterator_index - 1
                /\ sess_pc' = "event"
          /\ decision \in {"none", "OTHER", "BACK"}]_vars

\* C11 witness: after BACK at the second of two events the first is under review.
C11_Witness ==
    /\ sess_pc = "event"
    /\ decision = "BACK"
    /\ iterator_index = 0
    /\ Len(collection) = 2

\* C12: QUIT always ends the session. A QUIT decision, on either path, prints
\* the confirmation and ends the loop with the cursor where it was; once the
\* decision is QUIT nothing is displayed, asked or moved any more.
C12_QuitEndsSession ==
    [][/\ (sess_pc = "deciding" /\ decision' = "QUIT" /\ sess_pc' # "deciding") =>
             /\ sess_pc' = "done"
             /\ messages' = Append(messages, "Quitting...")
             /\ iterator_index' = iterator_index
       /\ (decision = "QUIT" /\ sess_pc # "deciding") =>
             /\ sess_pc = "done"
             /\ sess_pc' = "done"
             /\ screen' = screen
             /\ decision_call' = decision_call
             /\ iterator_index' = iterator_index
             /\ messages' = messages]_vars

\* C12 witness: the session ended by QUIT at the second event, asked for after
\* a resolution failure.
C12_Witness ==
    /\ sess_pc = "done"
    /\ decision = "QUIT"
    /\ review_path = "not_found"
    /\ iterator_index = 1
    /\ messages = <<"Quitting...">>

\* C13: a resolution failure is recoverable per event. A visit of an event
\* prints exactly one context, the error context on a failure and the normal
\* one otherwise, and asks for one decision; the failure does not end the
\* loop, and the decision that follows it is applied as on the normal path.
C13_ResolutionFailureRecoverable ==
    [][/\ sess_pc = "event" =>
             /\ sess_pc' = "deciding"
             /\ iterator_index' = iterator_index
             /\ screen'.current_index = iterator_index + 1
             /\ review_path' = "not_found" <=> screen'.kind = "not_found"
             /\ review_path' = "normal" <=> screen'.kind = "context"
             /\ review_path' \in {"normal", "not_found"}
       /\ (sess_pc = "deciding" /\ review_path = "not_found") =>
             /\ screen' = screen
             /\ iterator_index' = iterator_index
             /\ decision' = "QUIT" => sess_pc' = "done"
             /\ decision' = "BACK" => (sess_pc' = "next" /\ step_back_once')
             /\ decision' = "OTHER" => (sess_pc' = "next" /\ ~step_back_once')]_vars

\* C13 witness: the third event is under review after an advance that followed
\* a resolution failure at the second.
C13_Witness ==
    /\ sess_pc = "event"
    /\ review_path = "not_found"
    /\ decision = "OTHER"
    /\ iterator_index = 2
    /\ screen.kind = "not_found"
    /\ screen.current_index = 2

\* C14: no partial results on an ordering violation. When the comparison of
\* the loaded baselines raises NoLineNumberError, the session is over with
\* that one message printed, no context displayed and no decision asked for,
\* whatever events the generator yielded before it raised.
C14_NoPartialResults ==
    (loaded /\ CompareBaselines(left_secrets, right_secrets).raised) =>
        /\ sess_pc = "done"
        /\ messages = <<"NoLineNumberError">>
        /\ screen = NoScreen
        /\ decision_call = NoDecisionCall
        /\ decision = "none"
        /\ collection = <<>>

\* C14 witness: the comparison raised after it had yielded an event.
C14_Witness ==
    /\ loaded
    /\ sess_pc = "done"
    /\ CompareBaselines(left_secrets, right_secrets).raised
    /\ Len(CompareBaselines(left_secrets, right_secrets).events) >= 1

\* C15: status label. While a decision is asked for on the normal path, the
\* header says REMOVED exactly when the event's right record is absent and
\* ADDED exactly when its left record is absent, and the record shown is the
\* one present.
C15_StatusLabel ==
    (sess_pc = "deciding" /\ review_path = "normal") =>
        LET e == collection[iterator_index + 1]
        IN  /\ screen.kind = "context"
            /\ screen.status = "REMOVED" <=> e.right = None
            /\ screen.status = "ADDED" <=> e.left = None
            /\ screen.status \in {"REMOVED", "ADDED"}
            /\ screen.secret # None
            /\ screen.secret = (IF e.right = None THEN e.left ELSE e.right)

\* C15 witness: an addition is shown after a removal.
C15_Witness ==
    /\ sess_pc = "deciding"
    /\ review_path = "normal"
    /\ iterator_index = 1
    /\ collection[1].right = None
    /\ collection[2].left = None
    /\ screen.status = "ADDED"

\* C16: identical paths. With the same path given twice, the error message is
\* printed and nothing else happens: no baseline is loaded, no comparison run,
\* no review started.
C16_IdenticalPaths ==
    old_baseline_filename = new_baseline_filename =>
        /\ ~loaded
        /\ left_secrets = <<>> /\ right_secrets = <<>>
        /\ collection = <<>>
        /\ screen = NoScreen
        /\ decision_call = NoDecisionCall
        /\ decision = "none"
        /\ sess_pc \in {"idle", "start", "done"}
        /\ sess_pc = "done" => messages = <<"This is the same file!">>

\* C16 witness: compare_baselines returned after the message.
C16_Witness ==
    /\ old_baseline_filename = new_baseline_filename
    /\ sess_pc = "done"
    /\ messages = <<"This is the same file!">>

---------------------------------------------------------------------------
\* Further properties of _compare_baselines and call_function_with_arguments.

\* C17 (as claimed): the matched group stays within one key. In an iteration
\* of the merge of two valid baselines in which the records under the cursors
\* are equal in filename, line_number and secret_hash, each cursor moves past
\* at least one record, every record it moves past has that same key, it stops
\* at the first record with another key, and no event is yielded.
C17_MatchedGroupOneKey ==
    [][(/\ pc = "loop"
        /\ ValidInputs
        /\ LoopCondition(left_secrets, right_secrets, left_index, right_index)
        /\ Outcome(left_secrets, right_secrets, left_index, right_index) = "Match") =>
          LET k == left_secrets[left_index + 1]
          IN  /\ SameKey(k, right_secrets[right_index + 1])
              /\ left_index' > left_index
              /\ right_index' > right_index
              /\ left_index' <= Len(left_secrets)
              /\ right_index' <= Len(right_secrets)
              /\ \A i \in (left_index + 1)..left_index' : SameKey(left_secrets[i], k)
              /\ \A i \in (right_index + 1)..right_index' : SameKey(right_secrets[i], k)
              /\ left_index' < Len(left_secrets) =>
                    ~SameKey(left_secrets[left_index' + 1], k)
              /\ right_index' < Len(right_secrets) =>
                    ~SameKey(right_secrets[right_index' + 1], k)
              /\ events' = events]_vars

\* C18: bound-method injection is stable across the cache. A call of a bound
\* method with a pool that does not hold the name of its first parameter ends
\* the same way whether or not the parameter names were cached before it: when
\* the pool holds every other parameter without default, the method runs with
\* the instance as its first parameter and with the pool's values of the names
\* declared and in the pool, and nothing else; otherwise the call is a
\* TypeError for a parameter other than the instance.
C18_BoundMethodStable ==
    (call_outcome # "none" /\ IsMethod(func) /\ func.params[1] \notin DOMAIN kwargs) =>
        /\ CallFunctionWithArguments(func, kwargs, NoAttr, NoPath).call =
              CallFunctionWithArguments(func, kwargs, Attr(Declared(func)), "klass.name").call
        /\ injectable_variables = Attr(Declared(func))
        /\ ToSupply(func) \subseteq DOMAIN kwargs =>
              /\ call_outcome = "returned"
              /\ body_executed
              /\ call_received = ExpectedArguments(func, kwargs)
              /\ call_received[func.params[1]] = Instance
              /\ DOMAIN call_received =
                    {func.params[1]} \cup (Declared(func) \cap DOMAIN kwargs)
              /\ call_returned = Body(func, call_received)
        /\ ~(ToSupply(func) \subseteq DOMAIN kwargs) =>
              /\ call_outcome = "TypeError"
              /\ ~body_executed

\* C18 witness: a later call of a bound method of two parameters, the names
\* cached, with a pool holding the second parameter and a name not declared.
C18_Witness ==
    /\ IsMethod(func)
    /\ was_self_aware
    /\ Len(func.params) = 2
    /\ func.params[1] \notin DOMAIN kwargs
    /\ func.params[2] \in DOMAIN kwargs
    /\ DOMAIN kwargs \ Declared(func) # {}
    /\ call_outcome = "returned"
    /\ call_received[func.params[1]] = Instance

\* C19: progress and termination of the merge. The cursors stay within their
\* baselines, the events yielded never outnumber the records passed, every
\* iteration that does not raise moves the cursors forward by at least one
\* record together and neither of them back, and the inputs are not changed;
\* an iteration that raises and the end of the loop move nothing. Hence the
\* merge ends, by exhaustion or by raising.
C19_Progress ==
    /\ [](/\ 0 <= left_index /\ left_index <= Len(left_secrets)
          /\ 0 <= right_index /\ right_index <= Len(right_secrets)
          /\ Len(events) <= left_index + right_index
          /\ left_index + right_index <= Len(left_secrets) + Len(right_secrets)
          /\ pc = "done" =>
                (left_index = Len(left_secrets) /\ right_index = Len(right_secrets)))
    /\ [][pc = "loop" =>
            /\ left_secrets' = left_secrets
            /\ right_secrets' = right_secrets
            /\ left_index' >= left_index
            /\ right_index' >= right_index
            /\ Len(events') <= Len(events) + 1
            /\ pc' = "loop" => left_index' + right_index' > left_index + right_index
            /\ pc' # "loop" =>
                  (left_index' = left_index /\ right_index' = right_index
                   /\ events' = events)]_vars
    /\ <>(pc \in {"done", "raised"})

\* C19 witness: the merge of two baselines of three records is complete, with
\* fewer iterations than records because a matched group was passed in one.
C19_Witness ==
    /\ pc = "done"
    /\ Len(left_secrets) = 3
    /\ Len(right_secrets) = 3
    /\ left_index = 3
    /\ right_index = 3
    /\ Len(events) = 0
    /\ left_secrets[1].secret_hash = left_secrets[2].secret_hash
    /\ left_secrets[1].filename = left_secrets[2].filename

---------------------------------------------------------------------------
\* A further property of the review session.

=============================================================================
